---- MODULE Spec2Model ----
(***************************************************************************)
(* Model of the thread pool of src/src/lib.rs: one mpsc channel of jobs,   *)
(* a receiver shared by the workers behind an Arc<Mutex<..>>, the worker   *)
(* loop, ThreadPool::build, ThreadPool::execute and Drop for ThreadPool.   *)
(*                                                                         *)
(* The worker loop is                                                      *)
(*     match receiver.lock().unwrap().recv() { Ok(job) => job(), ... }     *)
(* The MutexGuard is a temporary of the scrutinee of the match, so it is   *)
(* dropped at the end of the match statement: the lock is held while the   *)
(* arm runs, that is while job() executes, and a panic in job() unwinds    *)
(* through the guard and poisons the mutex.                                *)
(***************************************************************************)
EXTENDS Integers, Sequences, FiniteSets, TLC

\* ---------------------------------------------------------------- bounds
MaxThreads == 2
MaxJobs == 3

\* What a submitted closure does when it is called.
JobKinds == {"ok", "panic"}

VARIABLES
    main,          \* position of the thread that owns the pool
    thread_count,  \* the argument build was called with (-1 before the call)
    build_err,     \* Option<ThreadCountError> returned by build: <<>> or <<e>>
    channel,       \* TRUE once mpsc::channel() has been called
    workers,       \* ThreadPool.workers: sequence of [id, thread]
    job_sender,    \* ThreadPool.job_sender: "Some" or "None"
    queue,         \* jobs in the channel, oldest first (job ids)
    wstate,        \* position of each worker thread, by worker id
    cur,           \* the job each worker thread owns (0: none)
    lock_holder,   \* worker id holding the receiver's MutexGuard, -1: free
    poisoned,      \* the receiver mutex is poisoned
    kinds,         \* kinds[j]: behaviour of job j, in submission order
    started,       \* started[j]: how many times job j has been invoked
    completed,     \* job ids in the order their invocation returned
    starts,        \* starts[w]: "starting up" notices printed by worker w
    stops,         \* stops[w]: "shutting down" notices printed by worker w
    join_idx,      \* position of drop's for loop in workers (1-based)
    drop_pending,  \* jobs queued or executing when drop was entered
    unwinding      \* drop runs while the owning thread is already panicking

vars == <<main, thread_count, build_err, channel, workers, job_sender, queue,
          wstate, cur, lock_holder, poisoned, kinds, started, completed,
          starts, stops, join_idx, drop_pending, unwinding>>

NoWorker == -1
NoJob == 0

WorkerIds == DOMAIN wstate
JobIds == 1..Len(kinds)

\* ------------------------------------------------------------ build
\* lib.rs:107  if thread_count <= 0
InvalidCountLax(tc) == tc < 0
InvalidCount(tc) == tc <= 0

\* lib.rs:108  Err(ThreadCountError { caller: .., invalid_val: thread_count })
ThreadCountError(tc) == [caller |-> "ThreadPool::new()", invalid_val |-> tc]

\* lib.rs:54-69  Worker { id, thread: Some(thread::spawn(..)) }
Worker(id) == [id |-> id, thread |-> TRUE]

\* lib.rs:115-119  for id in 0..thread_count { workers.push(Worker::new(id, ..)) }
SpawnWorkersFromOne(tc) == [i \in 1..tc |-> Worker(i)]
SpawnWorkers(tc) == [i \in 1..tc |-> Worker(i - 1)]

\* ------------------------------------------------------------ channel
\* mpsc::Sender::send as used at lib.rs:143-144: appends at the back
SendLossy(q, j) == IF q = <<>> THEN <<j>> ELSE q
Send(q, j) == Append(q, j)

\* The result of mpsc::Sender::send at lib.rs:143-144: the channel of
\* mpsc::channel() (lib.rs:111) has no capacity limit, so send never waits;
\* it returns Err exactly when the Receiver is gone.
SendOutcomeRendezvous(q, receiverAlive) ==
    IF ~receiverAlive THEN "Err" ELSE IF q = <<>> THEN "Ok" ELSE "Block"
SendOutcome(q, receiverAlive) == IF receiverAlive THEN "Ok" ELSE "Err"

\* The job mpsc::Receiver::recv returns at lib.rs:60: the oldest one
RecvJobNewest(q) == q[Len(q)]
RecvJob(q) == Head(q)

\* The queue after recv has returned a job
RecvRestKeep(q) == q
RecvRest(q) == Tail(q)

\* What Option::take leaves behind in job_sender (lib.rs:166)
TakeLeavesSome(opt) == opt
TakeLeaves(opt) == "None"

\* The Sender has been dropped (lib.rs:166)
SenderDropped == channel /\ job_sender = "None"

\* lib.rs:60  recv(): a job, Err when the queue is empty and the sender is
\* gone, and otherwise the call blocks.
RecvOutcomeNoEof(q, senderDropped) ==
    IF q # <<>> THEN "Ok" ELSE "Block"
RecvOutcomeTry(q, senderDropped) ==
    IF q # <<>> THEN "Ok" ELSE "Err"
RecvOutcomeClosedFirst(q, senderDropped) ==
    IF senderDropped THEN "Err" ELSE IF q # <<>> THEN "Ok" ELSE "Block"
RecvOutcome(q, senderDropped) ==
    IF q # <<>> THEN "Ok" ELSE IF senderDropped THEN "Err" ELSE "Block"

\* The Receiver lives in an Arc that only the worker closures own after build
\* has returned (lib.rs:113, 118): it is dropped with the last closure.
Terminated(s) == s \in {"done", "panicked"}
ReceiverAlive == \E w \in WorkerIds : ~Terminated(wstate[w])

\* MutexGuard::drop at the end of the match (lib.rs:60-66): the mutex becomes
\* poisoned when the guard is dropped while its thread is panicking.
PoisonNever(p, panicking) == p
PoisonCleared(p, panicking) == FALSE
Poison(p, panicking) == p \/ panicking

\* The jobs that sit in the channel or in a worker's hands
Range(f) == {f[i] : i \in DOMAIN f}
Unfinished == Range(queue) \cup (Range(cur) \ {NoJob})

\* ------------------------------------------------------------ join
\* lib.rs:169  thread.join(): blocks until the thread has ended; Err if it
\* ended by a panic.
JoinNoWait(s) == IF s = "panicked" THEN "Err" ELSE "Ok"
JoinBlind(s) == IF Terminated(s) THEN "Ok" ELSE "Block"
Join(s) == IF s = "done" THEN "Ok" ELSE IF s = "panicked" THEN "Err" ELSE "Block"

\* ------------------------------------------------------------ Init
Init ==
    /\ main = "init"
    /\ thread_count = -1
    /\ build_err = <<>>
    /\ channel = FALSE
    /\ workers = <<>>
    /\ job_sender = "None"
    /\ queue = <<>>
    /\ wstate = [w \in {} |-> "start"]
    /\ cur = [w \in {} |-> NoJob]
    /\ lock_holder = NoWorker
    /\ poisoned = FALSE
    /\ kinds = <<>>
    /\ started = <<>>
    /\ completed = <<>>
    /\ starts = [w \in {} |-> 0]
    /\ stops = [w \in {} |-> 0]
    /\ join_idx = 0
    /\ drop_pending = {}
    /\ unwinding = FALSE

\* ------------------------------------------------------------ actions
\* ThreadPool::build (lib.rs:106-122).  The spawned threads only start to
\* run their closure in later steps (WorkerStart).
Build ==
    /\ main = "init"
    /\ \E tc \in 0..MaxThreads :
        /\ thread_count' = tc
        /\ IF InvalidCount(tc)
           THEN /\ main' = "build_err"
                /\ build_err' = <<ThreadCountError(tc)>>
                /\ UNCHANGED <<channel, workers, job_sender, wstate, cur,
                               starts, stops>>
           ELSE /\ main' = "live"
                /\ channel' = TRUE
                /\ job_sender' = "Some"
                /\ workers' = SpawnWorkers(tc)
                /\ LET ids == {SpawnWorkers(tc)[i].id : i \in 1..tc}
                   IN /\ wstate' = [w \in ids |-> "start"]
                      /\ cur' = [w \in ids |-> NoJob]
                      /\ starts' = [w \in ids |-> 0]
                      /\ stops' = [w \in ids |-> 0]
                /\ UNCHANGED build_err
    /\ UNCHANGED <<queue, lock_holder, poisoned, kinds, started, completed,
                   join_idx, drop_pending, unwinding>>

\* ThreadPool::execute (lib.rs:141-145).  send fails when the Receiver has
\* been dropped, and the unwrap of its result then panics in the caller.
Execute ==
    /\ main = "live"
    /\ job_sender = "Some"
    /\ Len(kinds) < MaxJobs
    /\ SendOutcome(queue, ReceiverAlive) # "Block"
    /\ \E k \in JobKinds :
        IF SendOutcome(queue, ReceiverAlive) = "Ok"
        THEN /\ kinds' = Append(kinds, k)
             /\ started' = Append(started, 0)
             /\ queue' = Send(queue, Len(kinds) + 1)
             /\ UNCHANGED main
        ELSE /\ main' = "exec_panicked"
             /\ UNCHANGED <<kinds, started, queue>>
    /\ UNCHANGED <<thread_count, build_err, channel, workers, job_sender,
                   wstate, cur, lock_holder, poisoned, completed, starts,
                   stops, join_idx, drop_pending, unwinding>>

\* Drop for ThreadPool, first statement (lib.rs:166): take and drop the
\* sender.  The pool is dropped when its owner lets go of it, or while the
\* owner unwinds from the panic of execute.
DropBegin ==
    /\ main \in {"live", "exec_panicked"}
    /\ job_sender = "Some"
    /\ job_sender' = TakeLeaves(job_sender)
    /\ main' = "dropping"
    /\ join_idx' = 1
    /\ drop_pending' = Unfinished
    /\ unwinding' = (main = "exec_panicked")
    /\ UNCHANGED <<thread_count, build_err, channel, workers, queue, wstate,
                   cur, lock_holder, poisoned, kinds, started, completed,
                   starts, stops>>

DropJoinAll ==
    /\ main = "dropping"
    /\ join_idx <= Len(workers)
    /\ LET wk == workers[join_idx]
           r == IF wk.thread THEN Join(wstate[wk.id]) ELSE "Ok"
           last == join_idx + 1 > Len(workers)
           failed == \E i \in 1..join_idx :
                        wstate[workers[i].id] = "panicked"
       IN /\ r # "Block"
          /\ workers' = [workers EXCEPT ![join_idx].thread = FALSE]
          /\ join_idx' = IF last THEN join_idx ELSE join_idx + 1
          /\ main' = IF ~last THEN "dropping"
                     ELSE IF ~failed THEN "returned"
                     ELSE IF unwinding THEN "aborted" ELSE "drop_panicked"
    /\ UNCHANGED <<thread_count, build_err, channel, job_sender, queue,
                   wstate, cur, lock_holder, poisoned, kinds, started,
                   completed, starts, stops, drop_pending, unwinding>>

\* Drop for ThreadPool, one iteration of the loop (lib.rs:167-172): take the
\* handle, join it, panic on Err; after the last iteration drop returns.  A
\* panic of drop while the owner is already unwinding aborts the process.
DropJoin ==
    /\ main = "dropping"
    /\ join_idx <= Len(workers)
    /\ LET wk == workers[join_idx]
           r == IF wk.thread THEN Join(wstate[wk.id]) ELSE "Ok"
       IN /\ r # "Block"
          /\ workers' = [workers EXCEPT ![join_idx].thread = FALSE]
          /\ IF r = "Err"
             THEN /\ main' = IF unwinding THEN "aborted" ELSE "drop_panicked"
                  /\ UNCHANGED join_idx
             ELSE /\ join_idx' = join_idx + 1
                  /\ main' = IF join_idx + 1 > Len(workers)
                             THEN "returned" ELSE "dropping"
    /\ UNCHANGED <<thread_count, build_err, channel, job_sender, queue,
                   wstate, cur, lock_holder, poisoned, kinds, started,
                   completed, starts, stops, drop_pending, unwinding>>

WorkerStartTwice(w) ==
    /\ wstate[w] = "start"
    /\ starts' = [starts EXCEPT ![w] = @ + 2]
    /\ wstate' = [wstate EXCEPT ![w] = "lock"]
    /\ UNCHANGED <<main, thread_count, build_err, channel, workers,
                   job_sender, queue, cur, lock_holder, poisoned, kinds,
                   started, completed, stops, join_idx, drop_pending, unwinding>>

\* Worker thread, lib.rs:58: the startup notice.
WorkerStart(w) ==
    /\ wstate[w] = "start"
    /\ starts' = [starts EXCEPT ![w] = @ + 1]
    /\ wstate' = [wstate EXCEPT ![w] = "lock"]
    /\ UNCHANGED <<main, thread_count, build_err, channel, workers,
                   job_sender, queue, cur, lock_holder, poisoned, kinds,
                   started, completed, stops, join_idx, drop_pending, unwinding>>

\* Worker thread, lib.rs:60: receiver.lock().unwrap().  lock() waits for the
\* mutex; on a poisoned mutex it returns Err and the unwrap panics, dropping
\* the guard carried by the error.
WorkerLock(w) ==
    /\ wstate[w] = "lock"
    /\ lock_holder = NoWorker
    /\ IF poisoned
       THEN /\ wstate' = [wstate EXCEPT ![w] = "panicked"]
            /\ UNCHANGED lock_holder
       ELSE /\ wstate' = [wstate EXCEPT ![w] = "recv"]
            /\ lock_holder' = w
    /\ UNCHANGED <<main, thread_count, build_err, channel, workers,
                   job_sender, queue, cur, poisoned, kinds, started,
                   completed, starts, stops, join_idx, drop_pending, unwinding>>

\* Worker thread, lib.rs:60-66: .recv() under the lock.  Ok(job): the worker
\* owns the job and enters the arm, still holding the guard.  Err: the
\* shutdown notice, break, and the guard is dropped on the way out.
WorkerRecv(w) ==
    /\ wstate[w] = "recv"
    /\ lock_holder = w
    /\ LET r == RecvOutcome(queue, SenderDropped)
       IN /\ r # "Block"
          /\ IF r = "Ok"
             THEN /\ cur' = [cur EXCEPT ![w] = RecvJob(queue)]
                  /\ queue' = RecvRest(queue)
                  /\ wstate' = [wstate EXCEPT ![w] = "exec"]
                  /\ UNCHANGED <<stops, lock_holder, poisoned>>
             ELSE /\ stops' = [stops EXCEPT ![w] = @ + 1]
                  /\ wstate' = [wstate EXCEPT ![w] = "done"]
                  /\ lock_holder' = NoWorker
                  /\ poisoned' = Poison(poisoned, FALSE)
                  /\ UNCHANGED <<cur, queue>>
    /\ UNCHANGED <<main, thread_count, build_err, channel, workers,
                   job_sender, kinds, started, completed, starts, join_idx,
                   drop_pending, unwinding>>

WorkerCallUnlocked(w) ==
    /\ wstate[w] = "exec"
    /\ cur[w] # NoJob
    /\ wstate' = [wstate EXCEPT ![w] = "running"]
    /\ started' = [started EXCEPT ![cur[w]] = @ + 1]
    /\ lock_holder' = NoWorker
    /\ UNCHANGED <<main, thread_count, build_err, channel, workers,
                   job_sender, queue, cur, poisoned, kinds,
                   completed, starts, stops, join_idx, drop_pending, unwinding>>

\* Worker thread, lib.rs:61: job() is called.
WorkerCall(w) ==
    /\ wstate[w] = "exec"
    /\ cur[w] # NoJob
    /\ wstate' = [wstate EXCEPT ![w] = "running"]
    /\ started' = [started EXCEPT ![cur[w]] = @ + 1]
    /\ UNCHANGED <<main, thread_count, build_err, channel, workers,
                   job_sender, queue, cur, lock_holder, poisoned, kinds,
                   completed, starts, stops, join_idx, drop_pending, unwinding>>

\* Worker thread, lib.rs:61-66: job() returns or panics.  Either way the Box
\* is gone and the guard is dropped, at the end of the match or by the
\* unwinding.
WorkerFinish(w) ==
    /\ wstate[w] = "running"
    /\ LET j == cur[w]
           panicking == (kinds[j] = "panic")
       IN /\ cur' = [cur EXCEPT ![w] = NoJob]
          /\ lock_holder' = NoWorker
          /\ poisoned' = Poison(poisoned, panicking)
          /\ IF panicking
             THEN /\ wstate' = [wstate EXCEPT ![w] = "panicked"]
                  /\ UNCHANGED completed
             ELSE /\ wstate' = [wstate EXCEPT ![w] = "lock"]
                  /\ completed' = Append(completed, j)
    /\ UNCHANGED <<main, thread_count, build_err, channel, workers,
                   job_sender, queue, kinds, started, starts, stops,
                   join_idx, drop_pending, unwinding>>

WorkerStep(w) ==
    WorkerStart(w) \/ WorkerLock(w) \/ WorkerRecv(w) \/ WorkerCall(w)
        \/ WorkerFinish(w)

Next ==
    \/ Build
    \/ Execute
    \/ DropBegin
    \/ DropJoin
    \/ \E w \in WorkerIds : WorkerStart(w)
    \/ \E w \in WorkerIds : WorkerLock(w)
    \/ \E w \in WorkerIds : WorkerRecv(w)
    \/ \E w \in WorkerIds : WorkerCall(w)
    \/ \E w \in WorkerIds : WorkerFinish(w)

Spec == Init /\ [][Next]_vars

\* Worker threads are scheduled by the operating system and every job ends:
\* a worker step that stays possible is eventually taken.
FairSpec == Spec /\ \A w \in 0..(MaxThreads - 1) : WF_vars(w \in WorkerIds /\ WorkerStep(w))

\* The thread that runs drop is scheduled as well: a join that can return
\* does return.
FairDropSpec == FairSpec /\ WF_vars(DropJoin)

\* ------------------------------------------------------------ properties
NoPanicJobs == \A j \in JobIds : kinds[j] # "panic"
Occurrences(seq, x) == Cardinality({i \in DOMAIN seq : seq[i] = x})
Holders(j) == {w \in WorkerIds : cur[w] = j}
Invoking(j) == {w \in WorkerIds : cur[w] = j /\ wstate[w] = "running"}
JobPanicked(j) == kinds[j] = "panic" /\ started[j] > 0 /\ Holders(j) = {}
AnyJobPanicked == \E j \in JobIds : JobPanicked(j)

\* C1: when drop has returned from a run whose jobs do not panic, every
\* submitted job has been invoked exactly once and has completed exactly
\* once, and none is left in the queue.
C1_EachJobExactlyOnce ==
    (main = "returned" /\ NoPanicJobs) =>
        /\ queue = <<>>
        /\ \A j \in JobIds : started[j] = 1 /\ Occurrences(completed, j) = 1

C1_Witness ==
    /\ main = "returned"
    /\ NoPanicJobs
    /\ thread_count >= 2
    /\ Len(kinds) >= 3

\* C2: in every state, panics or not, a job sits in at most one place (one
\* slot of the queue or one worker), has been invoked at most once and is
\* being invoked by at most one worker.
C2_AtMostOnceDelivery ==
    \A j \in JobIds :
        /\ Occurrences(queue, j) + Cardinality(Holders(j)) <= 1
        /\ started[j] <= 1
        /\ Cardinality(Invoking(j)) <= 1

C2_Witness ==
    /\ AnyJobPanicked
    /\ thread_count >= 2
    /\ queue # <<>>
    /\ \E j \in JobIds : kinds[j] = "ok" /\ started[j] = 1

\* C3: when drop has returned from a run whose jobs do not panic, the queue
\* is empty, no worker holds a job, every worker thread has terminated, and
\* the jobs that were queued or executing when drop began have completed.
C3_DropReturnsDrained ==
    (main = "returned" /\ NoPanicJobs) =>
        /\ queue = <<>>
        /\ \A w \in WorkerIds : cur[w] = NoJob /\ Terminated(wstate[w])
        /\ drop_pending \subseteq Range(completed)

C3_Witness ==
    /\ main = "returned"
    /\ NoPanicJobs
    /\ Cardinality(drop_pending) >= 2

\* C4: once a job has panicked drop never returns normally, and drop ends by
\* a panic exactly at a worker whose thread ended by a panic.
C4_DropFailsAfterPanic ==
    /\ AnyJobPanicked => main # "returned"
    /\ main \in {"drop_panicked", "aborted"} =>
           wstate[workers[join_idx].id] = "panicked"

C4_Witness ==
    /\ main = "drop_panicked"
    /\ AnyJobPanicked

\* C5: a panic of a job poisons the receiver's mutex; from then on no worker
\* has terminated normally, and every worker thread of the pool eventually
\* terminates by a panic.
C5_PanicCascades ==
    /\ [](AnyJobPanicked =>
            poisoned /\ \A w \in WorkerIds : wstate[w] # "done")
    /\ (AnyJobPanicked ~> (\A w \in WorkerIds : wstate[w] = "panicked"))

C5_Witness ==
    /\ AnyJobPanicked
    /\ thread_count >= 2
    /\ poisoned
    /\ \A w \in WorkerIds : wstate[w] = "panicked"

\* C6 (as claimed): execute never fails while the pool has not begun its
\* teardown, whatever the workers have done.
C6_ExecuteSucceedsBeforeTeardown == main # "exec_panicked"

\* C7 (as claimed): a worker that is executing a job does not keep another
\* worker from taking the next job.
C7_ExecutingDoesNotBlockTaking ==
    \A w, v \in WorkerIds :
        (w # v /\ wstate[w] = "running" /\ wstate[v] = "lock")
            => ENABLED WorkerLock(v)

\* C8: with one worker and no panicking job, jobs complete in the order of
\* their submission.
C8_SingleWorkerFifo ==
    (thread_count = 1 /\ NoPanicJobs) =>
        completed = [i \in 1..Len(completed) |-> i]

C8_Witness ==
    /\ thread_count = 1
    /\ NoPanicJobs
    /\ Len(completed) >= 3

\* C9: build(0) returns Err(ThreadCountError) to its caller, which goes on
\* unharmed, and neither the channel nor any worker exists.
C9_BuildZeroFails ==
    thread_count = 0 =>
        /\ main = "build_err"
        /\ build_err # <<>>
        /\ ~channel
        /\ workers = <<>>
        /\ WorkerIds = {}

C9_Witness ==
    /\ thread_count = 0
    /\ main = "build_err"

\* C10: after build(thread_count) with thread_count > 0 the pool owns
\* thread_count workers, worker i-th in order having id i-1 and a thread of
\* its own on the one channel; the handles are all present while the pool is
\* live and the number of workers stays thread_count ever after.
C10_BuildSpawnsAllWorkers ==
    thread_count > 0 =>
        /\ build_err = <<>>
        /\ main # "build_err"
        /\ channel
        /\ Len(workers) = thread_count
        /\ \A i \in 1..Len(workers) : workers[i].id = i - 1
        /\ WorkerIds = 0..(thread_count - 1)
        /\ main = "live" => \A i \in 1..Len(workers) : workers[i].thread

C10_Witness ==
    /\ thread_count >= 2
    /\ main = "dropping"
    /\ Len(workers) = thread_count
    /\ \E i \in 1..Len(workers) : ~workers[i].thread

\* C11: while the pool is live and the channel is open, execute can always
\* be taken, whatever the length of the queue and whatever the workers are
\* doing, and it completes by appending the one new job to the queue while
\* the caller goes on.
C11_ExecuteNeverBlocks ==
    /\ []((main = "live" /\ ReceiverAlive /\ Len(kinds) < MaxJobs)
            => ENABLED Execute)
    /\ [][(Execute /\ ReceiverAlive) =>
            /\ queue' = Append(queue, Len(kinds) + 1)
            /\ main' = "live"]_vars

C11_Witness ==
    /\ main = "live"
    /\ thread_count >= 2
    /\ Len(kinds) < MaxJobs
    /\ queue # <<>>
    /\ \E w \in WorkerIds : wstate[w] = "running"
    /\ \A w \in WorkerIds : wstate[w] \in {"running", "lock"}

\* C12 (as claimed): the error of build carries the thread_count that was
\* passed and names build, the operation that was called.
BuildNames == {"ThreadPool::build()", "ThreadPool::build", "build()", "build"}
C12_ErrorNamesBuild ==
    build_err # <<>> =>
        /\ build_err[1].invalid_val = thread_count
        /\ build_err[1].caller \in BuildNames

\* C13: in a run without panicking jobs, once drop has dropped the sender
\* every worker eventually sees the end of the stream and exits and drop
\* eventually returns; while drop waits, some thread can always move.
C13_ShutdownTerminates ==
    /\ (main = "dropping" /\ NoPanicJobs) ~>
            (main = "returned" /\ \A w \in WorkerIds : wstate[w] = "done")
    /\ []((main = "dropping" /\ NoPanicJobs) =>
            (ENABLED DropJoin \/ \E w \in WorkerIds : ENABLED WorkerStep(w)))

C13_Witness ==
    /\ main = "returned"
    /\ NoPanicJobs
    /\ thread_count >= 2
    /\ kinds # <<>>
    /\ \A w \in WorkerIds : wstate[w] = "done" /\ stops[w] = 1

\* C14: a worker has terminated normally, with its shutdown notice, only if
\* the sender has been dropped and the queue is empty: never while the pool
\* is live, never while a job remains queued.
C14_NormalExitOnlyAtEndOfStream ==
    \A w \in WorkerIds :
        (wstate[w] = "done" \/ stops[w] > 0) =>
            /\ SenderDropped
            /\ main \notin {"live", "exec_panicked"}
            /\ queue = <<>>

C14_Witness ==
    /\ \E w \in WorkerIds : wstate[w] = "done"
    /\ \E w \in WorkerIds : wstate[w] = "lock"
    /\ completed # <<>>

\* C15: a worker is joined only after the sender has been dropped, after all
\* workers before it in construction order have been joined, and after its
\* own thread has terminated; drop's loop stands at the first worker not yet
\* joined; and a job still queued after the sender is gone is what the next
\* recv delivers.
Joined(i) == ~workers[i].thread
C15_TeardownOrder ==
    /\ \A i \in 1..Len(workers) :
        Joined(i) =>
            /\ SenderDropped
            /\ Terminated(wstate[workers[i].id])
            /\ \A k \in 1..(i - 1) : Joined(k)
            /\ join_idx >= i
    /\ \A w \in WorkerIds :
        (SenderDropped /\ queue # <<>> /\ wstate[w] = "recv") =>
            ENABLED (WorkerRecv(w) /\ cur'[w] = Head(queue))

C15_Witness ==
    /\ main = "dropping"
    /\ thread_count >= 2
    /\ Joined(1) /\ ~Joined(2)
    /\ drop_pending # {}
    /\ ~Terminated(wstate[workers[2].id])

\* C16: from a successful build until drop the sender is present, so the
\* unwrap of execute and the take().unwrap() of drop find it; from drop on it
\* is absent and never comes back; and a thread handle, once taken, stays
\* taken.
C16_SenderTakenOnce ==
    /\ [](/\ main \in {"live", "exec_panicked"} => job_sender = "Some"
          /\ main \in {"dropping", "returned", "drop_panicked", "aborted"}
                => job_sender = "None")
    /\ [][(channel /\ job_sender = "None") => job_sender' = "None"]_vars
    /\ [][\A i \in 1..Len(workers) : Joined(i) =>
            (i \in DOMAIN workers' /\ ~workers'[i].thread)]_vars

C16_Witness ==
    /\ main = "returned"
    /\ job_sender = "None"
    /\ completed # <<>>
    /\ \A i \in 1..Len(workers) : Joined(i)

\* C17: a worker prints its startup notice once, before its first receive,
\* and its shutdown notice once, when it sees the end of the stream; after
\* the teardown of a run without panicking jobs the log holds one startup and
\* one shutdown notice for each of the thread_count worker ids.
C17_OneNoticeEach ==
    /\ \A w \in WorkerIds :
        /\ starts[w] = (IF wstate[w] = "start" THEN 0 ELSE 1)
        /\ stops[w] = (IF wstate[w] = "done" THEN 1 ELSE 0)
    /\ (main = "returned" /\ NoPanicJobs) =>
        /\ Cardinality(WorkerIds) = thread_count
        /\ \A w \in WorkerIds : starts[w] = 1 /\ stops[w] = 1

C17_Witness ==
    /\ main = "returned"
    /\ NoPanicJobs
    /\ thread_count >= 2
    /\ \A w \in WorkerIds : starts[w] = 1 /\ stops[w] = 1

\* C18: once a job has panicked no job is invoked any more, neither one that
\* was queued at that moment nor one submitted later.
C18_NoJobStartsAfterPanic ==
    [][AnyJobPanicked => \A j \in JobIds : started'[j] = started[j]]_vars

C18_Witness ==
    /\ AnyJobPanicked
    /\ thread_count >= 2
    /\ Len(queue) >= 2
    /\ \A j \in Range(queue) : started[j] = 0
    /\ \A w \in WorkerIds : wstate[w] = "panicked"

\* C19: for any number of workers, in a run without panicking jobs the jobs
\* are invoked and completed in the order of their submission: a job is
\* invoked only when all jobs before it have completed.
C19_SerialInSubmissionOrder ==
    NoPanicJobs =>
        /\ completed = [i \in 1..Len(completed) |-> i]
        /\ \A j \in JobIds :
            started[j] > 0 => \A i \in 1..(j - 1) : i \in Range(completed)

C19_Witness ==
    /\ thread_count >= 2
    /\ NoPanicJobs
    /\ Len(completed) >= 2
    /\ \E w \in WorkerIds : wstate[w] = "running"
    /\ \E w \in WorkerIds : wstate[w] = "lock"

\* C20: when drop has ended by a panic, its loop stands at the first worker
\* in construction order whose thread panicked: the workers before it were
\* joined and had ended normally, the workers after it have not been joined.
C20_DropStopsAtFirstPanicked ==
    main \in {"drop_panicked", "aborted"} =>
        /\ join_idx \in 1..Len(workers)
        /\ wstate[workers[join_idx].id] = "panicked"
        /\ \A i \in 1..(join_idx - 1) :
            Joined(i) /\ wstate[workers[i].id] = "done"
        /\ \A i \in (join_idx + 1)..Len(workers) : ~Joined(i)

C20_Witness ==
    /\ main = "drop_panicked"
    /\ \E i \in 1..Len(workers) :
        ~Joined(i) /\ ~Terminated(wstate[workers[i].id])

====
